---- MODULE Spec2Model ----
(***************************************************************************)
(* Browser-side transcription pipeline of scribby: the TranscriptionService *)
(* (main thread) and the Whisper web worker it talks to through            *)
(* postMessage.  The worker is single-threaded: a message handler runs     *)
(* until its next await on the model (pipeline creation, warm-up,          *)
(* inference); other messages are handled while it is suspended there.     *)
(***************************************************************************)
EXTENDS Integers, Sequences, FiniteSets, TLC

\* ---------------------------------------------------------------- bounds
MaxCalls == 2        \* preloadModel / transcribeAudio calls issued in a run
MaxUnloads == 1      \* unloadModel calls issued in a run
MaxTerminates == 1   \* terminate calls issued in a run
MaxProgress == 1     \* progress_callback invocations per pipeline creation
MaxFrames == 4       \* frames of a decoded AudioBuffer

Models == {"A", "B"}
NoModel == "none"
Calls == 1..MaxCalls

VARIABLES
  worker,         \* TranscriptionService.worker is set
  currentJob,     \* TranscriptionService.currentJob (0 for null)
  isModelLoaded,  \* TranscriptionService.isModelLoaded
  calls,          \* per call: its promise, its timer
  listeners,      \* calls whose messageHandler is registered on the worker
  ops,            \* history: the service methods called so far, in order
  inbox,          \* messages posted to the worker, not yet handled
  outbox,         \* messages posted by the worker, not yet dispatched
  transcriber,    \* worker global: the model handle (the model it was built for)
  isLoading,      \* worker global
  currentDevice,  \* worker global
  probe,          \* hasWebGPU(): "none" (no worker), "pending", "done"
  co,             \* per request: the worker's async handler for it
  fin,            \* history: the handler that ended in the last step, if any
  hit,            \* history: an unload was handled while a load was in flight
  hook            \* useTranscription: its React state and its transcribeFile runs

vars == <<worker, currentJob, isModelLoaded, calls, listeners, ops, inbox,
          outbox, transcriber, isLoading, currentDevice, probe, co, fin, hit,
          hook>>

svcVars == <<worker, currentJob, isModelLoaded, calls, listeners, ops, hook>>
wrkVars == <<transcriber, isLoading, currentDevice, co, hit>>

\* ------------------------------------------------------------- messages
\* A worker message is [tag, job]; tag names the postMessage site, MsgType
\* gives the `type` field the client dispatches on.  "dl" is the post of
\* progress_callback (type progress, or initiate for a status other than
\* progress: neither is queued, see Queued).
MsgType(tag) ==
  CASE tag \in {"info", "devinfo"} -> "info"
    [] tag \in {"loading", "warming"} -> "loading"
    [] tag \in {"dl", "t0", "t100"} -> "progress"
    [] tag \in {"ready", "cached"} -> "ready"
    [] tag = "complete" -> "complete"
    [] tag \in {"loaderr", "txerr"} -> "error"
    [] OTHER -> tag

\* The client's handlers react to ready, complete and error only; a message
\* of any other type ends in options.onProgress or console.warn, which hold
\* no state of the service.  Such a message is recorded in its job's log
\* (co[c].log, in posting order) and is not queued for dispatch.
Queued(tag) == MsgType(tag) \in {"ready", "complete", "error"}

Post(q, c, tags) ==
  q \o SelectSeq([i \in 1..Len(tags) |-> [tag |-> tags[i], job |-> c]],
                 LAMBDA x : Queued(x.tag))

\* the async handler of one request: where it is suspended (pc), the
\* arguments and locals it holds, and as history whether loadModel returned
\* at `if (isLoading)` (attached), whether an unload message was handled
\* while it was suspended (stale), what it failed of (err) and the messages
\* it posted (log)
NoCo ==
  [kind |-> "none", pc |-> "none", model |-> NoModel, device |-> "wasm",
   handle |-> NoModel, attached |-> FALSE, stale |-> FALSE, err |-> "",
   log |-> <<>>]

\* a handler that has ended keeps no state; what it was is in fin for one step
Ended == [NoCo EXCEPT !.pc = "done"]
NoFin == [id |-> 0, rec |-> NoCo]

\* --------------------------------------------------------------- service
\* el, ld and inf are the time (in ticks) the call's timer has run, and how
\* much of it the call's job spent loading the model and in inference
NoCall ==
  [kind |-> "none", model |-> NoModel, state |-> "pending", why |-> "",
   by |-> 0, timer |-> FALSE, open |-> {}, born |-> {},
   el |-> 0, ld |-> 0, inf |-> 0]

NumCalls == Cardinality({c \in Calls : calls[c].kind # "none"})
CountOps(tag) == Cardinality({i \in 1..Len(ops) : ops[i].op = tag})
TimedOut == {c \in Calls : calls[c].why = "timeout"}

\* resolve()/reject() of a promise: only the first one takes effect
Settle(r, st, why, job) ==
  IF r.state = "pending"
    THEN [r EXCEPT !.state = st, !.why = why, !.by = job]
    ELSE r

Pending == {c \in Calls : calls[c].kind # "none" /\ calls[c].state = "pending"}

\* open and born are history: the calls that were pending, and the calls
\* that had timed out, when this call was made
NewCall(kind, m) ==
  [kind |-> kind, model |-> m, state |-> "pending", why |-> "", by |-> 0,
   timer |-> TRUE, open |-> Pending, born |-> TimedOut,
   el |-> 0, ld |-> 0, inf |-> 0]

\* initialize(): create the worker if there is none.  The worker script
\* starts the device probe: without navigator.gpu it is settled (and the
\* info message posted) before any message is handled.
StartWorker(gpu) ==
  /\ probe' = IF gpu THEN "pending" ELSE "done"
  /\ outbox' = IF gpu THEN <<>> ELSE Post(<<>>, 0, <<"devinfo">>)
  /\ fin' = NoFin
  /\ UNCHANGED <<transcriber, isLoading, currentDevice, co, hit>>

Initialize(gpu, msg) ==
  /\ worker' = TRUE
  /\ inbox' = Append(inbox, msg)
  /\ IF worker
       THEN fin' = NoFin /\ UNCHANGED <<probe, outbox, wrkVars>>
       ELSE StartWorker(gpu)

PreloadModel(c, m, gpu) ==
  /\ c = NumCalls + 1
  /\ c <= MaxCalls
  /\ Initialize(gpu, [type |-> "load", id |-> c, model |-> m])
  /\ calls' = [calls EXCEPT ![c] = NewCall("preload", m)]
  /\ listeners' = listeners \cup {c}
  /\ ops' = Append(ops, [op |-> "preload", id |-> c])
  /\ UNCHANGED <<currentJob, isModelLoaded, hook>>

TranscribeAudio(c, m, gpu) ==
  /\ c = NumCalls + 1
  /\ c <= MaxCalls
  /\ Initialize(gpu, [type |-> "transcribe", id |-> c, model |-> m])
  /\ currentJob' = c
  /\ calls' = [calls EXCEPT ![c] = NewCall("transcribe", m)]
  /\ listeners' = listeners \cup {c}
  /\ ops' = Append(ops, [op |-> "transcribe", id |-> c])
  /\ UNCHANGED isModelLoaded

UnloadModel ==
  /\ worker
  /\ CountOps("unload") < MaxUnloads
  /\ inbox' = Append(inbox, [type |-> "unload", id |-> 0, model |-> NoModel])
  /\ isModelLoaded' = FALSE
  /\ ops' = Append(ops, [op |-> "unload", id |-> 0])
  /\ fin' = NoFin
  /\ UNCHANGED <<worker, currentJob, calls, listeners, outbox, hook>>
  /\ UNCHANGED <<probe, wrkVars>>

TerminateKeepsListeners ==
  /\ worker
  /\ CountOps("terminate") < MaxTerminates
  /\ worker' = FALSE
  /\ currentJob' = 0
  /\ isModelLoaded' = FALSE
  /\ inbox' = <<>>
  /\ outbox' = <<>>
  /\ transcriber' = NoModel
  /\ isLoading' = FALSE
  /\ currentDevice' = "wasm"
  /\ probe' = "none"
  /\ co' = [c \in Calls |-> NoCo]
  /\ fin' = NoFin
  /\ hit' = FALSE
  /\ ops' = Append(ops, [op |-> "terminate", id |-> 0])
  /\ UNCHANGED <<calls, listeners, hook>>

\* terminate(): the worker is dropped with its globals, its handlers, the
\* messages queued either way and the listeners registered on it.  The
\* timers of pending calls belong to the main thread and keep running.
Terminate ==
  /\ worker
  /\ CountOps("terminate") < MaxTerminates
  /\ worker' = FALSE
  /\ currentJob' = 0
  /\ isModelLoaded' = FALSE
  /\ listeners' = {}
  /\ inbox' = <<>>
  /\ outbox' = <<>>
  /\ transcriber' = NoModel
  /\ isLoading' = FALSE
  /\ currentDevice' = "wasm"
  /\ probe' = "none"
  /\ co' = [c \in Calls |-> NoCo]
  /\ fin' = NoFin
  /\ hit' = FALSE
  /\ ops' = Append(ops, [op |-> "terminate", id |-> 0])
  /\ UNCHANGED <<calls, hook>>

\* the setTimeout callback of a call: reject only
Timeout(c) ==
  /\ calls[c].timer
  /\ calls' = [calls EXCEPT ![c] = [Settle(@, "rejected", "timeout", 0) EXCEPT !.timer = FALSE]]
  /\ fin' = NoFin
  /\ UNCHANGED <<worker, currentJob, isModelLoaded, listeners, ops, inbox, outbox, hook>>
  /\ UNCHANGED <<probe, wrkVars>>

\* messageHandler of transcribeAudio / of preloadModel: does this message
\* end the call (clearTimeout, removeEventListener, resolve or reject)?
Ends(kind, type) ==
  \/ kind = "transcribe" /\ type \in {"complete", "error"}
  \/ kind = "preload" /\ type \in {"ready", "error"}

HandlerDropsError(r, type, job) ==
  IF Ends(r.kind, type)
    THEN IF type = "error"
      THEN [r EXCEPT !.timer = FALSE]
      ELSE [Settle(r, "resolved", type, job) EXCEPT !.timer = FALSE]
    ELSE r

Handler(r, type, job) ==
  IF Ends(r.kind, type)
    THEN [Settle(r, IF type = "error" THEN "rejected" ELSE "resolved", type, job)
            EXCEPT !.timer = FALSE]
    ELSE r

\* the main thread dispatches one worker message to every registered listener
Deliver ==
  /\ outbox # <<>>
  /\ LET m == Head(outbox)
         type == MsgType(m.tag)
         ended == {c \in listeners : Ends(calls[c].kind, type)}
     IN /\ calls' = [c \in Calls |->
                       IF c \in listeners THEN Handler(calls[c], type, m.job) ELSE calls[c]]
        /\ listeners' = listeners \ ended
        /\ currentJob' = IF \E c \in ended : calls[c].kind = "transcribe" THEN 0 ELSE currentJob
        /\ isModelLoaded' =
             IF type = "ready" /\ \E c \in ended : calls[c].kind = "preload"
               THEN TRUE ELSE isModelLoaded
  /\ outbox' = Tail(outbox)
  /\ fin' = NoFin
  /\ UNCHANGED <<worker, ops, inbox, hook>>
  /\ UNCHANGED <<probe, wrkVars>>

\* ----------------------------------------------------------------- audio
\* What audioContext.decodeAudioData makes of a file: it rejects (corrupt
\* data, or no audio frame at all: an AudioBuffer has at least one frame),
\* or it resolves with an AudioBuffer of some length, rate and channel
\* count.  The context is created for 16 kHz; a browser that does not
\* honour that hands back the buffer at the file's own rate.
TargetRate == 16000
Rates == {8000, TargetRate, 44100, 48000}
Channels == {1, 2, 6}

Files ==
  [kind : {"corrupt", "empty"}, length : {0}, rate : {0}, channels : {0}]
    \cup [kind : {"audio"}, length : 1..MaxFrames, rate : Rates, channels : Channels]

\* one file that decodes and one that does not
SampleFiles ==
  {[kind |-> "audio", length |-> 1, rate |-> TargetRate, channels |-> 1],
   [kind |-> "corrupt", length |-> 0, rate |-> 0, channels |-> 0]}

\* Math.ceil(a / b) for positive b
Ceil(a, b) == (a + b - 1) \div b

ResampleAudioFloor(length, sourceSampleRate, targetSampleRate) ==
  IF sourceSampleRate = targetSampleRate
    THEN length
    ELSE (length * targetSampleRate) \div sourceSampleRate

\* resampleAudio: the length of the buffer it returns (the OfflineAudioContext
\* renders exactly the number of frames it was created for)
ResampleAudio(length, sourceSampleRate, targetSampleRate) ==
  IF sourceSampleRate = targetSampleRate
    THEN length
    ELSE Ceil(length * targetSampleRate, sourceSampleRate)

\* the mono mix: left.length for stereo, the channel itself for mono, a new
\* array of audioBuffer.length otherwise
Downmix(buf) ==
  CASE buf.channels = 2 -> buf.length
    [] buf.channels = 1 -> buf.length
    [] OTHER -> buf.length

NoOut == [ok |-> FALSE, length |-> 0, channels |-> 0, err |-> ""]

DecodeSwallowsError(f) ==
  IF f.kind # "audio"
    THEN [ok |-> TRUE, length |-> 0, channels |-> 1, err |-> ""]
    ELSE [ok |-> TRUE,
          length |-> IF f.rate # TargetRate
                       THEN ResampleAudio(Downmix(f), f.rate, TargetRate)
                       ELSE Downmix(f),
          channels |-> 1, err |-> ""]

\* decodeAudioData(file): the Float32Array it returns, or the error its
\* catch throws ('Failed to decode audio: ' with the cause's message)
DecodeAudioData(f) ==
  IF f.kind # "audio"
    THEN [ok |-> FALSE, length |-> 0, channels |-> 0, err |-> "decode:" \o f.kind]
    ELSE [ok |-> TRUE,
          length |-> IF f.rate # TargetRate
                       THEN ResampleAudio(Downmix(f), f.rate, TargetRate)
                       ELSE Downmix(f),
          channels |-> 1, err |-> ""]

\* history: the last file given to decodeAudioData and what came of it
NoDecode ==
  [file |-> [kind |-> "none", length |-> 0, rate |-> 0, channels |-> 0], out |-> NoOut]

\* --------------------------------------------------------------- options
\* A string is the sequence of its characters.  A caller's options are
\* language (a string, or not given), translate and timestamp (true, false
\* or not given, written "undefined").
Auto == <<"a", "u", "t", "o">>
Words ==
  {<<>>, Auto, <<"A", "u", "t", "o">>, <<"e", "n">>, <<"E", "N">>, <<"E", "n">>,
   <<"t", "e">>}
Undefined == [def |-> FALSE, s |-> <<>>]
Str(w) == [def |-> TRUE, s |-> w]
Flags == {"undefined", "true", "false"}

Options ==
  [language : {Undefined} \cup {Str(w) : w \in Words},
   translate : Flags, timestamp : Flags]

DefaultOptions ==
  [language |-> Undefined, translate |-> "undefined", timestamp |-> "undefined"]

\* String.prototype.toLowerCase over the letters in use
LowerChar(ch) ==
  CASE ch = "A" -> "a"
    [] ch = "E" -> "e"
    [] ch = "N" -> "n"
    [] OTHER -> ch

ToLowerCase(w) == [i \in 1..Len(w) |-> LowerChar(w[i])]

\* the options of the transcribe message transcribeAudio posts
PostedOptions(o) ==
  [language |-> IF o.language.def /\ o.language.s # <<>> THEN o.language ELSE Str(Auto),
   translate |-> IF o.translate = "true" THEN "true" ELSE "false",
   timestamp |-> IF o.timestamp # "false" THEN "true" ELSE "false"]

TranscribeOptionsAsGiven(p) ==
  [language |-> IF p.language = Str(Auto) THEN Undefined ELSE p.language,
   task |-> IF p.translate = "true" THEN "translate" ELSE "transcribe",
   return_timestamps |-> IF p.timestamp # "false" THEN "word" ELSE "false",
   chunk_length_s |-> 30, stride_length_s |-> 5]

\* transcribeOptions: what transcribe() passes to the model with the audio
TranscribeOptions(p) ==
  [language |-> IF p.language = Str(Auto)
                  THEN Undefined
                  ELSE IF p.language.def THEN Str(ToLowerCase(p.language.s)) ELSE Undefined,
   task |-> IF p.translate = "true" THEN "translate" ELSE "transcribe",
   return_timestamps |-> IF p.timestamp # "false" THEN "word" ELSE "false",
   chunk_length_s |-> 30, stride_length_s |-> 5]

\* history: the options of the last transcribeFile call that reached
\* transcribeAudio, as given, as posted and as passed to the model
Passed(o) ==
  [set |-> TRUE, given |-> o, posted |-> PostedOptions(o),
   passed |-> TranscribeOptions(PostedOptions(o))]

NoOptions == [Passed(DefaultOptions) EXCEPT !.set = FALSE]

\* ------------------------------------------------------- useTranscription
\* One run of the hook's transcribeFile: where it is suspended (pc), the
\* service call it made (call, 0 before decodeAudioData has returned), what
\* it returned (ret: the job whose result it is, 0 for none) and as history
\* what became of the persistence step (persist).
NoRun == [pc |-> "none", model |-> NoModel, call |-> 0, ret |-> 0, persist |-> ""]

\* result is the job whose result is shown (0 for null); error is whether
\* the error state is set; stored is the number of saved transcriptions and
\* history the number the hook shows
NoHook ==
  [isTranscribing |-> FALSE, result |-> 0, error |-> FALSE, stored |-> 0,
   history |-> 0, run |-> [h \in Calls |-> NoRun], decoded |-> NoDecode,
   options |-> NoOptions]

NumRuns == Cardinality({h \in Calls : hook.run[h].pc # "none"})

InFlight(c) == co[c].pc \in {"pipeline", "warmup", "infer"}
Loading(c) == co[c].pc \in {"pipeline", "warmup"}

\* the handler of request c moves to record r and posts what r.log adds
Step(c, r) ==
  /\ co' = [co EXCEPT ![c] = IF r.pc = "done" THEN Ended ELSE r]
  /\ fin' = IF r.pc = "done" THEN [id |-> c, rec |-> r] ELSE NoFin
  /\ outbox' = Post(outbox, c, SubSeq(r.log, Len(co[c].log) + 1, Len(r.log)))

\* what follows `await loadModel(...)` returning handle h: the message
\* listener just ends for a load; transcribe posts progress 0 and invokes h
\* (a TypeError, caught, when h is null)
AfterLoad(r, h) ==
  IF r.kind = "load"
    THEN [r EXCEPT !.pc = "done", !.handle = h]
    ELSE IF h = NoModel
      THEN [r EXCEPT !.pc = "done", !.err = "nohandle", !.log = @ \o <<"t0", "txerr">>]
      ELSE [r EXCEPT !.pc = "infer", !.handle = h, !.log = @ \o <<"t0">>]

\* loadModel thrown out of: the listener ends (load) or the catch of
\* transcribe posts its own error
AfterThrow(r, why) ==
  IF r.kind = "load"
    THEN [r EXCEPT !.pc = "done", !.err = why]
    ELSE [r EXCEPT !.pc = "done", !.err = why, !.log = @ \o <<"txerr">>]

LoadModelNoCache(r) ==
  IF isLoading
    THEN AfterLoad([r EXCEPT !.attached = TRUE, !.log = @ \o <<"info">>], transcriber)
    ELSE [r EXCEPT !.pc = "pipeline", !.log = @ \o <<"loading">>]

LoadModelNoGuard(r) ==
  IF transcriber # NoModel
    THEN AfterLoad([r EXCEPT !.log = @ \o <<"cached">>], transcriber)
    ELSE [r EXCEPT !.pc = "pipeline", !.log = @ \o <<"loading">>]

\* loadModel up to its first await
LoadModel(r) ==
  IF isLoading
    THEN AfterLoad([r EXCEPT !.attached = TRUE, !.log = @ \o <<"info">>], transcriber)
    ELSE IF transcriber # NoModel
      THEN AfterLoad([r EXCEPT !.log = @ \o <<"cached">>], transcriber)
      ELSE [r EXCEPT !.pc = "pipeline", !.log = @ \o <<"loading">>]

Request(kind, m) == [NoCo EXCEPT !.kind = kind, !.model = m, !.device = currentDevice]

\* the message listener for a load or a transcribe message, up to its
\* first await
Handle(c, kind, m) ==
  /\ LET r == LoadModel(Request(kind, m))
     IN /\ Step(c, r)
        /\ isLoading' = (isLoading \/ r.pc = "pipeline")
  /\ UNCHANGED <<transcriber, currentDevice, probe, hit>>

Receive(kind) ==
  /\ worker
  /\ inbox # <<>>
  /\ Head(inbox).type = kind
  /\ inbox' = Tail(inbox)
  /\ Handle(Head(inbox).id, kind, Head(inbox).model)
  /\ UNCHANGED svcVars

WorkerLoad == Receive("load")
WorkerTranscribe == Receive("transcribe")

UnloadKeepsHandle ==
  /\ isLoading' = FALSE
  /\ outbox' = Post(outbox, 0, <<"unloaded">>)
  /\ hit' = (hit \/ \E c \in Calls : Loading(c))
  /\ fin' = NoFin
  /\ co' = [c \in Calls |-> IF InFlight(c) THEN [co[c] EXCEPT !.stale = TRUE] ELSE co[c]]
  /\ UNCHANGED <<transcriber, currentDevice, probe>>

\* the message listener for an unload message; the handlers suspended at
\* that moment are marked (history)
Unload ==
  /\ transcriber' = NoModel
  /\ isLoading' = FALSE
  /\ outbox' = Post(outbox, 0, <<"unloaded">>)
  /\ hit' = (hit \/ \E c \in Calls : Loading(c))
  /\ fin' = NoFin
  /\ co' = [c \in Calls |-> IF InFlight(c) THEN [co[c] EXCEPT !.stale = TRUE] ELSE co[c]]
  /\ UNCHANGED <<currentDevice, probe>>

WorkerUnload ==
  /\ worker
  /\ inbox # <<>>
  /\ Head(inbox).type = "unload"
  /\ inbox' = Tail(inbox)
  /\ Unload
  /\ UNCHANGED svcVars

NumProgress(c) ==
  Cardinality({i \in 1..Len(co[c].log) : co[c].log[i] = "dl"})

DownloadProgress(c) ==
  /\ co[c].pc = "pipeline"
  /\ NumProgress(c) < MaxProgress
  /\ Step(c, [co[c] EXCEPT !.log = @ \o <<"dl">>])
  /\ UNCHANGED <<transcriber, isLoading, currentDevice, probe, inbox, hit>>
  /\ UNCHANGED svcVars

PipelineOK(c) ==
  /\ co[c].pc = "pipeline"
  /\ transcriber' = co[c].model
  /\ isLoading' = FALSE
  /\ IF co[c].device = "webgpu"
       THEN Step(c, [co[c] EXCEPT !.pc = "warmup", !.log = @ \o <<"warming">>])
       ELSE Step(c, AfterLoad([co[c] EXCEPT !.log = @ \o <<"ready">>], co[c].model))
  /\ UNCHANGED <<currentDevice, probe, inbox, hit>>
  /\ UNCHANGED svcVars

LoadFailKeepsFlag(c, at, why) ==
  /\ co[c].pc = at
  /\ Step(c, AfterThrow([co[c] EXCEPT !.log = @ \o <<"loaderr">>], why))
  /\ UNCHANGED <<transcriber, isLoading, currentDevice, probe, inbox, hit>>
  /\ UNCHANGED svcVars

LoadFail(c, at, why) ==
  /\ co[c].pc = at
  /\ isLoading' = FALSE
  /\ Step(c, AfterThrow([co[c] EXCEPT !.log = @ \o <<"loaderr">>], why))
  /\ UNCHANGED <<transcriber, currentDevice, probe, inbox, hit>>
  /\ UNCHANGED svcVars

PipelineFail(c) == LoadFail(c, "pipeline", "load")
WarmupFail(c) == LoadFail(c, "warmup", "warmup")

WarmupOK(c) ==
  /\ co[c].pc = "warmup"
  /\ Step(c, AfterLoad([co[c] EXCEPT !.log = @ \o <<"ready">>], transcriber))
  /\ UNCHANGED <<transcriber, isLoading, currentDevice, probe, inbox, hit>>
  /\ UNCHANGED svcVars

InferOK(c) ==
  /\ co[c].pc = "infer"
  /\ Step(c, [co[c] EXCEPT !.pc = "done", !.log = @ \o <<"t100", "complete">>])
  /\ UNCHANGED <<transcriber, isLoading, currentDevice, probe, inbox, hit>>
  /\ UNCHANGED svcVars

InferFailDropsHandle(c) ==
  /\ co[c].pc = "infer"
  /\ transcriber' = NoModel
  /\ Step(c, [co[c] EXCEPT !.pc = "done", !.err = "infer", !.log = @ \o <<"txerr">>])
  /\ UNCHANGED <<isLoading, currentDevice, probe, inbox, hit>>
  /\ UNCHANGED svcVars

InferFail(c) ==
  /\ co[c].pc = "infer"
  /\ Step(c, [co[c] EXCEPT !.pc = "done", !.err = "infer", !.log = @ \o <<"txerr">>])
  /\ UNCHANGED <<transcriber, isLoading, currentDevice, probe, inbox, hit>>
  /\ UNCHANGED svcVars

ProbeDoneStaysPending(supported) ==
  /\ worker
  /\ probe = "pending"
  /\ probe' = "pending"
  /\ currentDevice' = IF supported THEN "webgpu" ELSE "wasm"
  /\ outbox' = Post(outbox, 0, <<"devinfo">>)
  /\ fin' = NoFin
  /\ UNCHANGED <<transcriber, isLoading, co, inbox, hit>>
  /\ UNCHANGED svcVars

\* hasWebGPU().then(...): the probe settles
ProbeDone(supported) ==
  /\ worker
  /\ probe = "pending"
  /\ probe' = "done"
  /\ currentDevice' = IF supported THEN "webgpu" ELSE "wasm"
  /\ outbox' = Post(outbox, 0, <<"devinfo">>)
  /\ fin' = NoFin
  /\ UNCHANGED <<transcriber, isLoading, co, inbox, hit>>
  /\ UNCHANGED svcVars

\* ------------------------------------------------------------------ time
\* the delays of the two setTimeout calls, in ticks of 150 s
PreloadTimeout == 2
TranscribeTimeout == 4

Delay(kind) == IF kind = "preload" THEN PreloadTimeout ELSE TranscribeTimeout

\* the timer of call c has run for its delay
Due(c) == calls[c].timer /\ calls[c].el = Delay(calls[c].kind)

\* one tick passes: every running timer advances; time does not pass a
\* timer that is due
Tick ==
  /\ \E c \in Calls : calls[c].timer
  /\ \A c \in Calls : ~Due(c)
  /\ calls' = [c \in Calls |->
                 IF calls[c].timer
                   THEN [calls[c] EXCEPT
                           !.el = @ + 1,
                           !.ld = IF Loading(c) THEN @ + 1 ELSE @,
                           !.inf = IF co[c].pc = "infer" THEN @ + 1 ELSE @]
                   ELSE calls[c]]
  /\ fin' = NoFin
  /\ UNCHANGED <<worker, currentJob, isModelLoaded, listeners, ops, inbox, outbox, hook>>
  /\ UNCHANGED <<probe, wrkVars>>

\* ------------------------------------------------ useTranscription: steps
\* transcribeFile of the hook, up to `await decodeAudioData(file)` in the
\* service's transcribeFile
HookTranscribeFile(h, m) ==
  /\ h = NumRuns + 1
  /\ h <= MaxCalls
  /\ hook' = [hook EXCEPT !.isTranscribing = TRUE, !.error = FALSE, !.result = 0,
                          !.run[h] = [NoRun EXCEPT !.pc = "decode", !.model = m]]
  /\ fin' = NoFin
  /\ UNCHANGED <<worker, currentJob, isModelLoaded, calls, listeners, ops, inbox, outbox>>
  /\ UNCHANGED <<probe, wrkVars>>

\* the outer catch of the hook's transcribeFile
HookCatch(h) ==
  [hook EXCEPT !.isTranscribing = FALSE, !.error = TRUE, !.run[h].pc = "thrown"]

\* decodeAudioData(file) settles, f being what the browser finds in the
\* file: transcribeAudio is called with the samples and the options o of
\* the call (other than the model), or the error reaches the hook's catch
\* through the catch of transcribeFile
HookDecoded(h, f, o, gpu) ==
  /\ hook.run[h].pc = "decode"
  /\ IF DecodeAudioData(f).ok
       THEN \E c \in Calls :
              /\ TranscribeAudio(c, hook.run[h].model, gpu)
              /\ hook' = [hook EXCEPT !.run[h].pc = "await", !.run[h].call = c,
                                      !.decoded = [file |-> f, out |-> DecodeAudioData(f)],
                                      !.options = Passed(o)]
       ELSE /\ hook' = [HookCatch(h) EXCEPT
                          !.decoded = [file |-> f, out |-> DecodeAudioData(f)]]
            /\ fin' = NoFin
            /\ UNCHANGED <<worker, currentJob, isModelLoaded, calls, listeners, ops,
                           inbox, outbox>>
            /\ UNCHANGED <<probe, wrkVars>>

\* a run whose service call has settled and whose continuation has not run
Resumable(h) ==
  /\ hook.run[h].pc = "await"
  /\ calls[hook.run[h].call].state # "pending"

\* the continuation of `await transcriptionService.transcribeFile(...)`
HookSettled(h) ==
  /\ Resumable(h)
  /\ LET r == calls[hook.run[h].call]
     IN hook' = IF r.state = "resolved"
                  THEN [hook EXCEPT !.result = r.by, !.isTranscribing = FALSE,
                                    !.run[h].pc = "save", !.run[h].ret = r.by]
                  ELSE HookCatch(h)
  /\ fin' = NoFin
  /\ UNCHANGED <<worker, currentJob, isModelLoaded, calls, listeners, ops, inbox, outbox>>
  /\ UNCHANGED <<probe, wrkVars>>

HookSaveThrows(h, ok) ==
  /\ hook.run[h].pc = "save"
  /\ hook' = IF ok
               THEN [hook EXCEPT !.stored = @ + 1, !.run[h].pc = "history"]
               ELSE [HookCatch(h) EXCEPT !.run[h].persist = "savefail", !.run[h].ret = 0]
  /\ fin' = NoFin
  /\ UNCHANGED <<worker, currentJob, isModelLoaded, calls, listeners, ops, inbox, outbox>>
  /\ UNCHANGED <<probe, wrkVars>>

\* storageService.saveTranscription settles; a rejection is caught by the
\* inner catch and the run returns its result
HookSave(h, ok) ==
  /\ hook.run[h].pc = "save"
  /\ hook' = IF ok
               THEN [hook EXCEPT !.stored = @ + 1, !.run[h].pc = "history"]
               ELSE [hook EXCEPT !.run[h].pc = "returned", !.run[h].persist = "savefail"]
  /\ fin' = NoFin
  /\ UNCHANGED <<worker, currentJob, isModelLoaded, calls, listeners, ops, inbox, outbox>>
  /\ UNCHANGED <<probe, wrkVars>>

\* loadHistory settles; it catches its own failure
HookHistory(h, ok) ==
  /\ hook.run[h].pc = "history"
  /\ hook' = IF ok
               THEN [hook EXCEPT !.history = hook.stored, !.run[h].pc = "returned",
                                 !.run[h].persist = "ok"]
               ELSE [hook EXCEPT !.run[h].pc = "returned", !.run[h].persist = "histfail"]
  /\ fin' = NoFin
  /\ UNCHANGED <<worker, currentJob, isModelLoaded, calls, listeners, ops, inbox, outbox>>
  /\ UNCHANGED <<probe, wrkVars>>

ClearResult ==
  /\ hook.result # 0 \/ hook.error
  /\ hook' = [hook EXCEPT !.result = 0, !.error = FALSE]
  /\ fin' = NoFin
  /\ UNCHANGED <<worker, currentJob, isModelLoaded, calls, listeners, ops, inbox, outbox>>
  /\ UNCHANGED <<probe, wrkVars>>

\* -------------------------------------------------------- specifications
Init ==
  /\ worker = FALSE
  /\ currentJob = 0
  /\ isModelLoaded = FALSE
  /\ calls = [c \in Calls |-> NoCall]
  /\ listeners = {}
  /\ ops = <<>>
  /\ inbox = <<>>
  /\ outbox = <<>>
  /\ transcriber = NoModel
  /\ isLoading = FALSE
  /\ currentDevice = "wasm"
  /\ probe = "none"
  /\ co = [c \in Calls |-> NoCo]
  /\ fin = NoFin
  /\ hit = FALSE
  /\ hook = NoHook

ClientOp ==
  \/ \E c \in Calls, m \in Models, gpu \in BOOLEAN : PreloadModel(c, m, gpu)
  \/ \E c \in Calls, m \in Models, gpu \in BOOLEAN :
       TranscribeAudio(c, m, gpu) /\ UNCHANGED hook
  \/ UnloadModel
  \/ Terminate

\* a suspended handler resumes, or the device probe settles
Resume ==
  \/ \E c \in Calls : DownloadProgress(c)
  \/ \E c \in Calls : PipelineOK(c)
  \/ \E c \in Calls : PipelineFail(c)
  \/ \E c \in Calls : WarmupOK(c)
  \/ \E c \in Calls : WarmupFail(c)
  \/ \E c \in Calls : InferOK(c)
  \/ \E c \in Calls : InferFail(c)
  \/ \E s \in BOOLEAN : ProbeDone(s)

WorkerStep ==
  \/ WorkerLoad
  \/ WorkerTranscribe
  \/ WorkerUnload
  \/ Resume

MainStep ==
  \/ Deliver
  \/ \E c \in Calls : Timeout(c)

Next == ClientOp \/ WorkerStep \/ MainStep

Spec == Init /\ [][Next]_vars

\* timers fire: a pending setTimeout callback is eventually run.  The
\* download-progress callbacks only add to a job's log and are left out.
NextLive ==
  \/ ClientOp
  \/ WorkerLoad
  \/ WorkerTranscribe
  \/ WorkerUnload
  \/ \E c \in Calls : PipelineOK(c)
  \/ \E c \in Calls : PipelineFail(c)
  \/ \E c \in Calls : WarmupOK(c)
  \/ \E c \in Calls : WarmupFail(c)
  \/ \E c \in Calls : InferOK(c)
  \/ \E c \in Calls : InferFail(c)
  \/ \E s \in BOOLEAN : ProbeDone(s)
  \/ MainStep

FairSpec == Init /\ [][NextLive]_vars /\ \A c \in Calls : WF_vars(Timeout(c))

\* the worker alone, under any stream of messages: a worker is started,
\* load, transcribe and unload messages arrive at its listener in any order
\* and at any time, and nobody listens to what it posts
Boot(gpu) ==
  /\ ~worker
  /\ worker' = TRUE
  /\ StartWorker(gpu)
  /\ UNCHANGED <<currentJob, isModelLoaded, calls, listeners, ops, inbox, hook>>

Arrive(c, kind, m) ==
  /\ worker
  /\ co[c].pc = "none"
  /\ \A d \in 1..(c - 1) : co[d].pc # "none"
  /\ Handle(c, kind, m)
  /\ UNCHANGED inbox
  /\ UNCHANGED svcVars

ArriveUnload ==
  /\ worker
  /\ CountOps("unload") < MaxUnloads
  /\ Unload
  /\ ops' = Append(ops, [op |-> "unload", id |-> 0])
  /\ UNCHANGED <<worker, currentJob, isModelLoaded, calls, listeners, inbox, hook>>

Arrivals ==
  \/ \E gpu \in BOOLEAN : Boot(gpu)
  \/ \E c \in Calls, kind \in {"load", "transcribe"}, m \in Models : Arrive(c, kind, m)
  \/ ArriveUnload

\* no step of the worker reads what it has posted, so a posted message is
\* dispatched (to no listener) before the worker's next step
NextWorker ==
  \/ outbox = <<>> /\ Arrivals
  \/ outbox = <<>> /\ Resume
  \/ Deliver

WorkerSpec == Init /\ [][NextWorker]_vars

\* a caller that awaits each call before it makes the next one
Quiescent ==
  /\ inbox = <<>>
  /\ outbox = <<>>
  /\ \A c \in Calls : ~InFlight(c)
  /\ \A c \in Calls : calls[c].kind # "none" => calls[c].state # "pending"

NextSeq == (Quiescent /\ ClientOp) \/ WorkerStep \/ MainStep

SeqSpec == Init /\ [][NextSeq]_vars

\* the hook as the only caller of the service.  The continuation of a
\* settled call is a microtask: it runs before any other task.
HookStep ==
  \/ \E h \in Calls, m \in Models : HookTranscribeFile(h, m)
  \/ \E h \in Calls, f \in SampleFiles, gpu \in BOOLEAN :
       HookDecoded(h, f, DefaultOptions, gpu)
  \/ \E h \in Calls, ok \in BOOLEAN : HookSave(h, ok)
  \/ \E h \in Calls, ok \in BOOLEAN : HookHistory(h, ok)
  \/ ClearResult

NextHook ==
  \/ \E h \in Calls : HookSettled(h)
  \/ (\A h \in Calls : ~Resumable(h)) /\ HookStep
  \/ (\A h \in Calls : ~Resumable(h)) /\ WorkerStep
  \/ (\A h \in Calls : ~Resumable(h)) /\ MainStep

HookSpec == Init /\ [][NextHook]_vars

\* transcribeFile on any file: the decoding alone, the worker left out
NextDecode ==
  \/ \E h \in Calls, m \in Models : HookTranscribeFile(h, m)
  \/ \E h \in Calls, f \in Files, gpu \in BOOLEAN :
       HookDecoded(h, f, DefaultOptions, gpu)

DecodeSpec == Init /\ [][NextDecode]_vars

\* transcribeFile with any options
NextOptions ==
  \/ \E h \in Calls, m \in Models : HookTranscribeFile(h, m)
  \/ \E h \in Calls, f \in SampleFiles, o \in Options, gpu \in BOOLEAN :
       HookDecoded(h, f, o, gpu)

OptionsSpec == Init /\ [][NextOptions]_vars

\* transcribeAudio calls under a clock: a timer fires when it is due.  The
\* download-progress callbacks only add to a job's log and are left out.
NextTimed ==
  \/ \E c \in Calls, m \in Models, gpu \in BOOLEAN :
       TranscribeAudio(c, m, gpu) /\ UNCHANGED hook
  \/ WorkerTranscribe
  \/ \E c \in Calls : PipelineOK(c)
  \/ \E c \in Calls : PipelineFail(c)
  \/ \E c \in Calls : WarmupOK(c)
  \/ \E c \in Calls : WarmupFail(c)
  \/ \E c \in Calls : InferOK(c)
  \/ \E c \in Calls : InferFail(c)
  \/ \E s \in BOOLEAN : ProbeDone(s)
  \/ Deliver
  \/ Tick
  \/ \E c \in Calls : Due(c) /\ Timeout(c)

TimedSpec == Init /\ [][NextTimed]_vars

\* ------------------------------------------------------------ properties
Tx == {c \in Calls : calls[c].kind = "transcribe"}

\* the handlers in view: those in flight and the one that has just ended
Recs == {co[c] : c \in {d \in Calls : InFlight(d)}} \cup {fin.rec}
JobRecs == {r \in Recs : r.kind = "transcribe"}

\* C1: when a transcription call is made while another one is pending,
\* each of the two is resolved only with the result of its own job.
C1_OverlappingCallsKeepOwnResult ==
  \A c \in Tx : \A d \in calls[c].open \cap Tx :
    /\ calls[c].state = "resolved" => calls[c].by = c
    /\ calls[d].state = "resolved" => calls[d].by = d

\* C2: at most one transcription job is in progress (loading or inferring)
\* in the worker at any time, so the model is never invoked for a second
\* job while an invocation has not returned.
C2_OneActiveJob ==
  Cardinality({c \in Calls : co[c].kind = "transcribe" /\ InFlight(c)}) <= 1

\* C3: requests that arrive while a load is in flight start no second
\* download: at most one load is in flight at a time (as long as no unload
\* has hit a load in flight).
C3_OneDownload == ~hit => Cardinality({c \in Calls : Loading(c)}) <= 1

\* a load request has just returned at `if (isLoading)` while the download
\* of the same model for an earlier load request is in flight
C3_Witness ==
  /\ ~hit
  /\ transcriber = NoModel
  /\ fin.rec.kind = "load" /\ fin.rec.attached
  /\ \E c \in Calls :
       co[c].kind = "load" /\ co[c].pc = "pipeline" /\ co[c].model = fin.rec.model

\* C4: a transcribe request that finds a load in flight proceeds with the
\* handle that load produces: it never fails for a missing handle.
C4_AttachesToInFlightLoad ==
  \A r \in JobRecs : r.attached => r.err # "nohandle"

\* C5: a transcription call made after another call was rejected by its
\* timeout resolves with the result of its own audio.
C5_CallAfterTimeoutKeepsOwnResult ==
  \A c \in Tx : \A d \in calls[c].born \cap Tx :
    calls[c].state = "resolved" => calls[c].by = c

\* C6: every transcription call gets exactly one outcome: it is eventually
\* resolved or rejected, and once settled its outcome never changes.
Outcome(r) == <<r.state, r.why, r.by>>

C6_ExactlyOneOutcome ==
  /\ \A c \in Calls : (calls[c].kind = "transcribe") ~> (calls[c].state # "pending")
  /\ [][\A c \in Calls : calls[c].state # "pending" => Outcome(calls'[c]) = Outcome(calls[c])]_vars

\* a call rejected by its timeout after terminate() dropped its job, or a
\* call whose handler ran for a terminal message after the timeout had
\* already rejected it
C6_Witness ==
  \/ \E c \in Tx : /\ calls[c].why = "timeout"
                   /\ ~worker
                   /\ ops[Len(ops)].op = "terminate"
  \/ \E c \in Tx : /\ calls[c].why = "timeout"
                   /\ worker
                   /\ CountOps("terminate") = 0
                   /\ c \notin listeners

\* C7: the messages the worker posts for one transcribe job are ordered:
\* loading and download progress, then ready, then transcribing progress,
\* then one terminal message (complete or error), which is the last.
Rank(tag) ==
  CASE MsgType(tag) \in {"complete", "error"} -> 4
    [] tag \in {"t0", "t100"} -> 3
    [] MsgType(tag) = "ready" -> 2
    [] OTHER -> 1

C7_JobMessagesOrdered ==
  \A r \in JobRecs :
    LET L == r.log
    IN /\ \A i \in 1..Len(L) : \A j \in 1..Len(L) : i < j => Rank(L[i]) <= Rank(L[j])
       /\ \A i \in 1..Len(L) : Rank(L[i]) = 4 => i = Len(L)
       /\ r.pc = "done" => Len(L) > 0 /\ Rank(L[Len(L)]) = 4

\* C8: a failure ends the failed request and leaves the loader usable: a
\* failed download or warm-up resets the loading flag, a failed inference
\* leaves flag and handle as they are, the worker is idle again when the
\* failed request was the only one in flight, the flag is never set
\* without a download in flight, and a request received with no handle and
\* no download in flight starts a fresh download.
Failed(c) == co[c].pc # "done" /\ fin'.id = c /\ fin'.rec.err # ""
Idle == ~isLoading /\ \A c \in Calls : ~InFlight(c)

C8_FailStep ==
  \A c \in Calls : Failed(c) =>
    /\ co'[c].pc = "done"
    /\ fin'.rec.err \in {"load", "warmup"} => ~isLoading'
    /\ fin'.rec.err = "infer" => isLoading' = isLoading /\ transcriber' = transcriber
    /\ (\A d \in Calls \ {c} : ~InFlight(d)) => Idle'

C8_Retry ==
  \A c \in Calls :
    (/\ co[c].pc = "none" /\ co'[c].pc # "none"
     /\ transcriber = NoModel
     /\ \A d \in Calls : co[d].pc # "pipeline") => co'[c].pc = "pipeline"

C8_FailureLeavesWorkerUsable ==
  /\ []((\A c \in Calls : co[c].pc # "pipeline") => ~isLoading)
  /\ [][C8_FailStep /\ C8_Retry]_vars

\* a download has just failed and the worker is idle, with no handle
C8_Witness ==
  /\ fin.rec.err = "load"
  /\ Idle
  /\ transcriber = NoModel

\* C9: the handle that serves a request is the handle of the model the
\* request names, and ready is not reported from the cache for another model.
C9_HandleMatchesRequest ==
  \A r \in Recs : r.handle # NoModel => r.handle = r.model

\* C10: preloadModel(A), unloadModel(), preloadModel(B), each awaited, with
\* B # A: the second load starts a download of B and the worker ends up
\* holding B.
LoadUnloadLoad(a, b) ==
  /\ Len(ops) >= 3
  /\ ops[Len(ops) - 2] = [op |-> "preload", id |-> a]
  /\ ops[Len(ops) - 1].op = "unload"
  /\ ops[Len(ops)] = [op |-> "preload", id |-> b]
  /\ calls[a].model # calls[b].model
  /\ calls[a].why = "ready"

C10_LoadUnloadLoad ==
  /\ [](\A a \in Calls : \A b \in Calls :
          LoadUnloadLoad(a, b) /\ calls[b].why = "ready" => transcriber = calls[b].model)
  /\ [][\A a \in Calls : \A b \in Calls :
          LoadUnloadLoad(a, b) /\ co[b].pc = "none" /\ co'[b].pc # "none"
            => co'[b].pc = "pipeline" /\ co'[b].model = calls[b].model]_vars

C10_Witness ==
  /\ LoadUnloadLoad(1, 2)
  /\ calls[2].why = "ready"
  /\ transcriber = calls[2].model

\* the worker's listener handles an unload message in this step
UnloadHandled ==
  \/ /\ worker /\ worker'
     /\ inbox # <<>> /\ Head(inbox).type = "unload" /\ inbox' = Tail(inbox)
  \/ /\ inbox' = inbox
     /\ Len(ops') = Len(ops) + 1 /\ ops'[Len(ops')].op = "unload"

\* the pipeline() of request c resolves in this step and assigns the handle
Assigns(c) == co[c].pc = "pipeline" /\ co'[c].pc # "pipeline" /\ transcriber' = co[c].model

\* C11: once the worker has handled an unload it holds no handle, and the
\* handle stays absent until a load requested after that unload completes:
\* no request that was in flight when the unload was handled brings a
\* handle back.
C11_HandleAbsentAfterUnload ==
  [][/\ UnloadHandled => transcriber' = NoModel
     /\ (transcriber = NoModel /\ transcriber' # NoModel)
          => \A c \in Calls : Assigns(c) => ~co[c].stale]_vars

\* C12: an unload handled while no model is loaded leaves handle and
\* loading flag as they were, so a request handled while a download is in
\* flight starts no second download.
C12_UnloadWithoutModelIsNoOp ==
  [][/\ (UnloadHandled /\ transcriber = NoModel)
          => (transcriber' = transcriber /\ isLoading' = isLoading)
     /\ \A c \in Calls :
          (/\ co[c].pc = "none"
           /\ \E d \in Calls : co[d].pc = "pipeline")
            => co'[c].pc # "pipeline"]_vars

\* the worker's listener starts the handler of request c in this step;
\* Started(c) is that handler as the step leaves it
Arrives(c) == co[c].pc = "none" /\ co'[c].pc # "none"
Started(c) == IF co'[c].pc = "done" THEN fin'.rec ELSE co'[c]

\* C13: a load request for the model that is already loaded returns the
\* existing handle at once (ready, "already loaded"), starts no download
\* and leaves handle and loading flag unchanged.
C13_LoadIsIdempotent ==
  [][\A c \in Calls :
       (/\ Arrives(c)
        /\ Started(c).kind = "load"
        /\ transcriber # NoModel
        /\ Started(c).model = transcriber)
         => /\ co'[c].pc = "done"
            /\ fin'.id = c
            /\ fin'.rec.handle = transcriber
            /\ fin'.rec.err = ""
            /\ fin'.rec.log = <<"cached">>
            /\ transcriber' = transcriber
            /\ isLoading' = isLoading]_vars

\* a load request for the loaded model has just been answered from the cache
C13_Witness ==
  /\ fin.rec.kind = "load"
  /\ fin.rec.log = <<"cached">>
  /\ fin.rec.model = transcriber
  /\ fin.rec.handle = transcriber
  /\ ~isLoading

\* the log of request c's handler as this step leaves it, and whether the
\* step posts a ready message for it
LogAfter(c) == IF fin'.id = c THEN fin'.rec.log ELSE co'[c].log
PostsReady(c) ==
  /\ co[c].pc # "done"
  /\ \E i \in (Len(co[c].log) + 1)..Len(LogAfter(c)) : MsgType(LogAfter(c)[i]) = "ready"

NumReady(L) == Cardinality({i \in 1..Len(L) : MsgType(L[i]) = "ready"})
Downloads(r) == \E i \in 1..Len(r.log) : r.log[i] = "loading"

\* C14: a load that downloads posts ready exactly once and only on
\* completion: after the download and, on webgpu, after the warm-up; no
\* ready message is posted while a warm-up is running; no warm-up is run on
\* the wasm device.
C14_ReadyOnceAfterWarmup ==
  /\ [](\A r \in Recs : Downloads(r) =>
          /\ NumReady(r.log) <= 1
          /\ r.pc \in {"pipeline", "warmup"} => NumReady(r.log) = 0
          /\ (r.pc \in {"infer", "done"} /\ r.err \notin {"load", "warmup"})
               => NumReady(r.log) = 1
          /\ (NumReady(r.log) = 1 /\ r.device = "webgpu")
               => \E i \in 1..Len(r.log) : r.log[i] = "warming"
          /\ r.pc = "warmup" => r.device = "webgpu")
  /\ [][(\E d \in Calls : co[d].pc = "warmup" /\ co'[d].pc = "warmup")
          => \A c \in Calls : ~PostsReady(c)]_vars

\* C15: in a worker whose probe found WebGPU, every load that downloads
\* runs on the webgpu device, however early its request was handled.
C15_AcceleratedLoadsUseWebGPU ==
  (probe = "done" /\ currentDevice = "webgpu")
    => \A r \in Recs : Downloads(r) => r.device = "webgpu"

\* C16: the probe runs once per worker, at startup, and its result is
\* cached: while the worker lives the probe only goes from pending to
\* settled, currentDevice is assigned only in that step and keeps the
\* default until then, and no other step starts a probe.
C16_ProbeOnce ==
  /\ [](worker => probe # "none")
  /\ [](probe = "pending" => currentDevice = "wasm")
  /\ [][(worker /\ worker') =>
          /\ probe' # probe => (probe = "pending" /\ probe' = "done")
          /\ currentDevice' # currentDevice => (probe = "pending" /\ probe' = "done")]_vars

\* a request handled after the probe found WebGPU runs with the cached result
C16_Witness ==
  /\ probe = "done"
  /\ currentDevice = "webgpu"
  /\ \E c \in Calls : InFlight(c) /\ co[c].device = "webgpu"

NumErrors(L) == Cardinality({i \in 1..Len(L) : MsgType(L[i]) = "error"})

\* C17: when inference throws, the job ends with one error message, the
\* handle and the loading flag are left as they are, and a transcribe
\* request handled while a handle is held runs on that handle without a
\* download.
C17_InferenceFailureKeepsHandle ==
  [][/\ \A c \in Calls :
          (co[c].pc = "infer" /\ fin'.id = c /\ fin'.rec.err = "infer")
            => /\ transcriber' = transcriber
               /\ isLoading' = isLoading
               /\ NumErrors(fin'.rec.log) = 1
               /\ fin'.rec.log[Len(fin'.rec.log)] = "txerr"
     /\ \A c \in Calls :
          (Arrives(c) /\ Started(c).kind = "transcribe" /\ transcriber # NoModel)
            => /\ co'[c].pc = "infer"
               /\ co'[c].handle = transcriber
               /\ ~Downloads(co'[c])
               /\ transcriber' = transcriber]_vars

\* an inference has just thrown and the worker still holds the handle the
\* job ran on
C17_Witness ==
  /\ fin.rec.err = "infer"
  /\ transcriber # NoModel
  /\ transcriber = fin.rec.handle

\* the calls made before the last terminate()
LastTerminate ==
  IF CountOps("terminate") = 0 THEN 0
  ELSE CHOOSE i \in 1..Len(ops) :
         ops[i].op = "terminate" /\ \A j \in (i + 1)..Len(ops) : ops[j].op # "terminate"
Old(c) == \E i \in 1..Len(ops) : ops[i].id = c /\ i < LastTerminate

\* C18: terminate() discards the worker with its jobs and its model: with
\* no worker the service has no current job, isReady() is false, nothing is
\* queued or registered and no handle or handler is left; a call made
\* before a terminate() is afterwards settled by its timeout only; and the
\* call that creates the next worker finds it with no model and no load.
C18_TerminateDiscardsWorker ==
  /\ [](~worker =>
          /\ currentJob = 0 /\ ~isModelLoaded
          /\ listeners = {} /\ inbox = <<>> /\ outbox = <<>>
          /\ transcriber = NoModel /\ ~isLoading
          /\ \A c \in Calls : co[c].pc = "none")
  /\ [][/\ \A c \in Calls :
             (Old(c) /\ calls[c].state = "pending" /\ calls'[c].state # "pending")
               => calls'[c].why = "timeout"
        /\ (worker /\ CountOps("terminate")' > CountOps("terminate")) => ~worker'
        /\ (~worker /\ worker')
             => /\ transcriber' = NoModel /\ ~isLoading'
                /\ probe' # "none"
                /\ \A c \in Calls : co'[c].pc = "none"
                /\ inbox' # <<>>]_vars

\* a call dropped by terminate() is still pending (or timed out) while a
\* call made afterwards has been resolved by the new worker
C18_Witness ==
  \E c \in Calls : \E d \in Calls :
    /\ Old(c) /\ calls[c].why \in {"", "timeout"}
    /\ ~Old(d) /\ calls[d].state = "resolved"

\* C20: a preloadModel call is resolved only by the ready of its own load
\* and rejected only by the error of its own load or by its own timeout.
C20_PreloadSettledByOwnLoad ==
  \A c \in Calls :
    (calls[c].kind = "preload" /\ calls[c].state # "pending" /\ calls[c].why # "timeout")
      => calls[c].by = c

\* C19: a failure of the persistence step (saveTranscription or the
\* history reload rejecting) after a successful transcription does not fail
\* the call: the run still returns the transcription result, and the step
\* changes neither the result state nor the error state.
C19_PersistenceFailureIsSwallowed ==
  /\ [](\A h \in Calls :
          hook.run[h].pc \in {"save", "history", "returned"}
            => /\ hook.run[h].ret # 0
               /\ calls[hook.run[h].call].state = "resolved"
               /\ hook.run[h].ret = calls[hook.run[h].call].by)
  /\ [][\A h \in Calls :
          (hook.run[h].pc \in {"save", "history"} /\ hook'.run[h] # hook.run[h])
            => /\ hook'.run[h].pc \in {"history", "returned"}
               /\ hook'.run[h].ret = hook.run[h].ret
               /\ hook'.result = hook.result
               /\ hook'.error = hook.error
               /\ hook'.isTranscribing = hook.isTranscribing]_vars

\* saveTranscription has rejected and the run has returned its result,
\* which is still shown, with no error
C19_Witness ==
  \E h \in Calls :
    /\ hook.run[h].pc = "returned"
    /\ hook.run[h].persist = "savefail"
    /\ hook.run[h].ret # 0
    /\ hook.result = hook.run[h].ret
    /\ ~hook.error

\* C21: a transcription call has two independent deadlines, one for the
\* model load (the delay of preloadModel's timer) and one for the inference
\* (the delay of transcribeAudio's timer): the call is rejected as soon as
\* its job has spent either in that phase, and a timeout rejects it only
\* then, so the time spent loading does not count against the inference.
C21_TwoIndependentDeadlines ==
  \A c \in Tx :
    /\ calls[c].state = "pending"
         => (calls[c].ld <= PreloadTimeout /\ calls[c].inf <= TranscribeTimeout)
    /\ calls[c].why = "timeout"
         => (calls[c].ld >= PreloadTimeout \/ calls[c].inf >= TranscribeTimeout)

C24_TranscribeStartsNoDownload ==
  \A r \in JobRecs : ~Downloads(r) /\ r.pc # "pipeline"

\* the percentage the messageHandler of transcribeAudio hands to onProgress
\* for a message: 0 for loading and info, 100 for ready, the message's own
\* progress for the two transcribing posts; -1 where none is reported here
\* (complete, error, and the download posts, whose percentage is the
\* library's)
Percent(tag) ==
  CASE tag = "t0" -> 0
    [] tag = "t100" -> 100
    [] MsgType(tag) \in {"loading", "info"} -> 0
    [] MsgType(tag) = "ready" -> 100
    [] OTHER -> -1

Reported(log) == SelectSeq(log, LAMBDA t : Percent(t) >= 0)

C25_Bracketed(r) ==
  /\ r.pc = "infer" => r.log[Len(r.log)] = "t0"
  /\ \A i \in 1..Len(r.log) :
       /\ r.log[i] = "complete" => i > 1 /\ r.log[i - 1] = "t100"
       /\ r.log[i] = "t100" => i < Len(r.log) /\ r.log[i + 1] = "complete"
       /\ r.log[i] = "t100" => \E j \in 1..(i - 1) : r.log[j] = "t0"

C25_Monotone(r) ==
  LET P == Reported(r.log)
  IN \A i \in 1..Len(P) : \A j \in 1..Len(P) :
       i < j => Percent(P[i]) <= Percent(P[j])

\* C25: for every successful job the worker posts transcribing progress 0
\* before the inference starts and transcribing progress 100 immediately
\* before complete, nothing in between, and the percentages reported to
\* onProgress for one job never decrease.
C25_ProgressBracketsAndGrows ==
  \A r \in JobRecs : C25_Bracketed(r) /\ C25_Monotone(r)

\* C26: whenever isReady() returns true the worker holds a loaded model,
\* whatever the interleaving of preloadModel, unloadModel and terminate.
C26_ReadyMeansLoaded ==
  isModelLoaded => (worker /\ transcriber # NoModel)

\* what the caller asked for, read off the options as given
NoLanguage(o) == ~o.language.def \/ o.language.s \in {<<>>, Auto}
IsLower(w) == \A i \in 1..Len(w) : w[i] \notin {"A", "E", "N"}
SameLetters(v, w) ==
  /\ Len(v) = Len(w)
  /\ \A i \in 1..Len(v) :
       \/ v[i] = w[i]
       \/ <<v[i], w[i]>> \in {<<"a", "A">>, <<"e", "E">>, <<"n", "N">>}

C27_LanguageAndTask ==
  LET o == hook.options.given
      t == hook.options.passed
  IN hook.options.set =>
       /\ NoLanguage(o) => t.language = Undefined
       /\ ~NoLanguage(o) => /\ t.language.def
                             /\ IsLower(t.language.s)
                             /\ SameLetters(t.language.s, o.language.s)
       /\ t.task = IF o.translate = "true" THEN "translate" ELSE "transcribe"

\* C27 as stated: language 'auto' or none is left undetermined, any other
\* is passed lower-cased; translate selects the translate task, otherwise
\* transcribe; word-level timestamps when the caller asks for timestamps,
\* plain text otherwise.
C27_OptionsAsAsked ==
  /\ C27_LanguageAndTask
  /\ hook.options.set =>
       hook.options.passed.return_timestamps =
         IF hook.options.given.timestamp = "true" THEN "word" ELSE "false"

\* C27, amended: as above, but word-level timestamps are requested unless
\* the caller gives timestamp: false; a call that gives no timestamp option
\* gets them as well.
C27_OptionsTimestampsByDefault ==
  /\ C27_LanguageAndTask
  /\ hook.options.set =>
       hook.options.passed.return_timestamps =
         IF hook.options.given.timestamp = "false" THEN "false" ELSE "word"

\* a call for language 'EN' with translate and no timestamp option has been
\* posted: the model gets 'en', the translate task and word timestamps
C27_Witness ==
  /\ hook.options.set
  /\ hook.options.given =
       [language |-> Str(<<"E", "N">>), translate |-> "true", timestamp |-> "undefined"]
  /\ hook.options.passed.language = Str(<<"e", "n">>)
  /\ hook.options.passed.task = "translate"
  /\ hook.options.passed.return_timestamps = "word"
  /\ \E c \in Tx : c \in listeners

\* a worker message is dispatched to the registered handlers in this step
Dispatched == outbox # <<>> /\ outbox' = Tail(outbox) /\ worker'

\* C28: once the promise of a preloadModel or transcribeAudio call has
\* settled (complete, error or timeout), its message handler reacts to no
\* further worker message: it is not among the handlers a message is
\* dispatched to, and so changes neither currentJob nor isModelLoaded.
C28_ListenersEndWithCall ==
  [][Dispatched => \A c \in listeners : calls[c].state = "pending"]_vars

PendingJobs == {c \in Tx : calls[c].state = "pending"}

\* the most recently submitted job: ids are given in submission order
Latest(S) == CHOOSE c \in S : \A d \in S : d <= c

\* C29: currentJob is non-null exactly while some transcribeAudio call is
\* pending, it then holds the id of the most recently submitted pending
\* job, and it is cleared only when the job whose id it holds completes or
\* fails, or by terminate().
C29_CurrentJobTracksPending ==
  /\ [](currentJob # 0 <=> PendingJobs # {})
  /\ [](currentJob # 0 => currentJob = Latest(PendingJobs))
  /\ [][(currentJob # 0 /\ currentJob' = 0)
          => \/ CountOps("terminate")' > CountOps("terminate")
             \/ /\ calls[currentJob].state = "pending"
                /\ calls'[currentJob].state # "pending"
                /\ calls'[currentJob].why \in {"complete", "error"}
                /\ calls'[currentJob].by = currentJob]_vars

\* a call of the hook's transcribeFile whose service call has not settled,
\* or has and the continuation has yet to run
InProgress(h) == hook.run[h].pc \in {"decode", "await"}
Settles(h) == InProgress(h) /\ ~InProgress(h)'

\* C30: in useTranscription, isTranscribing is true while a transcription
\* call is in progress and false once it has settled (none being in
\* progress), and when a call settles exactly one of result and error is
\* set: result and no error after success, error and no result after
\* failure.
C30_HookStateFollowsCall ==
  /\ []((\E h \in Calls : InProgress(h)) => hook.isTranscribing)
  /\ []((NumRuns > 0 /\ \A h \in Calls : ~InProgress(h)) => ~hook.isTranscribing)
  /\ [][\A h \in Calls : Settles(h) =>
          IF hook'.run[h].pc = "thrown"
            THEN hook'.error /\ hook'.result = 0
            ELSE hook'.result # 0 /\ ~hook'.error]_vars

====
